---- MODULE Spec2Model ----
(***************************************************************************)
(* Login-streak engine of the HYPD Games backend (backend/server.py,       *)
(* backend/models.py): the POST /auth/login handler with its rate limiter, *)
(* credential and ban checks, the streak transition and the user payload   *)
(* it returns, together with the admin ban / unban operations that decide  *)
(* whether a login is accepted.                                            *)
(*                                                                         *)
(* Leaderboards (backend/server.py, backend/cache.py): registration, the   *)
(* streak reads, the admin update of a user, score submission, the global  *)
(* and per-game leaderboard reads and the Redis cache in front of them,    *)
(* first with each handler as one step, then with the steps between which  *)
(* concurrent requests interleave.                                         *)
(*                                                                         *)
(* Calendar dates are integers (day numbers, UTC); day 0 is the day the    *)
(* modelled run starts, negative days lie before it.  A nullable date      *)
(* column is a sequence of length 0 (NULL) or 1.                           *)
(***************************************************************************)
EXTENDS Integers, Sequences, FiniteSets, TLC

\* ------------------------------------------------------------------ bounds
MaxDay == 2          \* dates a login can read from the clock: 0..MaxDay
MaxLogins == 2       \* accepted logins in one run
MaxSubmits == 2      \* score submissions in one run
MaxScore == 2        \* submitted scores are -1 and 1..MaxScore
MaxRequests == 3     \* friendship rows created in one run

\* --------------------------------------------------------- sets of inputs
Users == {"u1", "u2"}
Emails == {"u1@x", "u2@x", "nobody@x"}
Passwords == {"Passw0rd", "wrong"}
IPs == {"ip1"}
\* time since the previous requests of the same client, against the
\* rate-limit window: either none of the kept timestamps has aged out of
\* the window or all of them have
Elapsed == {"within_window", "window_passed"}
Days == 0..MaxDay
\* the identifiers check_rate_limit is called with: "login:{ip}", "register:{ip}"
RateKeys == {"login", "register"} \X IPs
\* lengths of the consecutive-day runs the admin account has behind it when
\* the run starts (the run ends on day 0); they put the three reward tiers
\* and their boundaries within reach of MaxLogins logins
SeedRuns == {6, 29, 40}

None == <<>>
Some(d) == <<d>>

VARIABLES
    users,             \* the users table: id -> row
    rate_limit_store,  \* "{endpoint}:{ip}" -> number of timestamps kept
    response,          \* what the last request returned to the client
    call,              \* the last handler's inputs and locals at its exit
    log,               \* log records emitted by the last handler
    loginDates,        \* history: id -> dates of the accepted logins
    ordered,           \* history: id -> accepted logins had non-decreasing dates
    writes,            \* history: id -> (date -> number of streak UPDATEs that day)
    nLogins,           \* accepted logins so far in this run
    redis_client,      \* cache.redis_client: the client, or none configured
    cache,             \* the Redis keys of the leaderboards: key -> entry or none
    commits,           \* history: score submissions committed so far
    invalidatedAt,     \* history: key -> value of `commits` when last deleted
    proc,              \* requests in flight: request -> its position and locals
    friendships,       \* the friendships table: a set of rows
    requests           \* history: friendship rows created so far

\* the variables of the leaderboards, their cache and the requests in flight
boardVars == <<redis_client, cache, commits, invalidatedAt, proc>>

\* the variables of the friends feature
socialVars == <<friendships, requests>>

vars == <<users, rate_limit_store, response, call, log, loginDates, ordered,
          writes, nLogins, redis_client, cache, commits, invalidatedAt, proc,
          friendships, requests>>

\* ------------------------------------------------------------- the model

\* max_requests passed by login to check_rate_limit
LOGIN_MAX_REQUESTS == 10

\* bcrypt: hash_password / verify_password
HashPassword(password) == <<"bcrypt", password>>
VerifyPassword(password, hashed) == HashPassword(password) = hashed

\* the JSON object {}
NoScores == [g \in {} |-> 0]

\* a row as register creates it: the streak columns take their defaults
NewUser(username, email, password, isAdmin) ==
    [ username          |-> username,
      email             |-> email,
      hashed_password   |-> HashPassword(password),
      is_admin          |-> isAdmin,
      is_banned         |-> FALSE,
      high_scores       |-> NoScores,
      total_play_time   |-> 0,
      total_games_played |-> 0,
      login_streak      |-> 0,
      best_login_streak |-> 0,
      last_login_date   |-> None,
      total_login_days  |-> 0,
      streak_points     |-> 0 ]

\* the five streak columns of a row
StreakFields(row) ==
    << row.login_streak, row.best_login_streak, row.total_login_days,
       row.streak_points, row.last_login_date >>

\* PointsFor with the first tier ending one day early
PointsForStrictTier(n) ==
    IF n < 7 THEN 10 * n
    ELSE IF n <= 30 THEN 100 + (n - 7) * 15
    ELSE 500 + (n - 30) * 20

\* bonus points of a consecutive-day login, by the new streak length
PointsFor(n) ==
    IF n <= 7 THEN 10 * n
    ELSE IF n <= 30 THEN 100 + (n - 7) * 15
    ELSE 500 + (n - 30) * 20

\* branch "last_login is None"
FirstLogin(user) ==
    [ user EXCEPT !.login_streak = 1,
                  !.best_login_streak = 1,
                  !.total_login_days = 1,
                  !.streak_points = 10 ]

\* ConsecutiveLogin without the update of the best streak
ConsecutiveNoBest(user) ==
    LET n == user.login_streak + 1 IN
    [ user EXCEPT !.login_streak = n,
                  !.total_login_days = user.total_login_days + 1,
                  !.streak_points = user.streak_points + PointsFor(n) ]

\* branch "last_login == today - timedelta(days=1)"
ConsecutiveLogin(user) ==
    LET n == user.login_streak + 1 IN
    [ user EXCEPT !.login_streak = n,
                  !.total_login_days = user.total_login_days + 1,
                  !.streak_points = user.streak_points + PointsFor(n),
                  !.best_login_streak =
                      IF n > user.best_login_streak THEN n
                      ELSE user.best_login_streak ]

\* GapLogin that also resets the best streak
GapResetsBest(user) ==
    [ user EXCEPT !.login_streak = 1,
                  !.best_login_streak = 1,
                  !.total_login_days = user.total_login_days + 1,
                  !.streak_points = user.streak_points + 10 ]

\* GapLogin that does not count the day
GapNoDayCount(user) ==
    [ user EXCEPT !.login_streak = 1,
                  !.streak_points = user.streak_points + 10 ]

\* branch "else": any other date, later or earlier
GapLogin(user) ==
    [ user EXCEPT !.login_streak = 1,
                  !.total_login_days = user.total_login_days + 1,
                  !.streak_points = user.streak_points + 10 ]

\* Branch that never recognises a repeat on the same day
BranchNoSameDay(user, today) ==
    IF user.last_login_date = None THEN "first"
    ELSE IF user.last_login_date = Some(today - 1) THEN "consecutive"
    ELSE "gap"

\* Branch that skips a date earlier than the stored one like a repeat
BranchBackdatedSkipped(user, today) ==
    IF user.last_login_date = None THEN "first"
    ELSE IF user.last_login_date[1] >= today THEN "same_day"
    ELSE IF user.last_login_date = Some(today - 1) THEN "consecutive"
    ELSE "gap"

\* which branch of the streak logic a login on `today` takes
Branch(user, today) ==
    IF user.last_login_date = None THEN "first"
    ELSE IF user.last_login_date = Some(today) THEN "same_day"
    ELSE IF user.last_login_date = Some(today - 1) THEN "consecutive"
    ELSE "gap"

\* StreakWritten that writes the row back on every login
AlwaysWritten(user, today) == TRUE

\* "Update last login date": whether the row is written back
StreakWritten(user, today) == user.last_login_date # Some(today)

\* the streak logic of login: the user object after it (with the new
\* last_login_date when it is to be written), the points earned, the flags.
\* The integer columns default to 0 and are never NULL, so `x or 0` is x;
\* last_active_at, stamped by the same UPDATE, is not part of the model.
ApplyLogin(user, today) ==
    LET b == Branch(user, today)
        u1 == CASE b = "first"       -> FirstLogin(user)
                [] b = "same_day"    -> user
                [] b = "consecutive" -> ConsecutiveLogin(user)
                [] OTHER             -> GapLogin(user)
        pts == CASE b = "first"       -> 10
                 [] b = "same_day"    -> 0
                 [] b = "consecutive" -> PointsFor(user.login_streak + 1)
                 [] OTHER             -> 10
    IN  [ user |-> IF StreakWritten(user, today)
                   THEN [u1 EXCEPT !.last_login_date = Some(today)]
                   ELSE u1,
          points_earned  |-> pts,
          streak_updated |-> b # "same_day",
          written        |-> StreakWritten(user, today) ]

\* check_rate_limit: drop the timestamps older than the window (all of them
\* when the window has gone by since the last request, else none), refuse at
\* max_requests, else record this request
CheckRateLimit(kept_before, elapsed, max_requests) ==
    LET kept == IF elapsed = "window_passed" THEN 0 ELSE kept_before IN
    IF kept >= max_requests
    THEN [ allowed |-> FALSE, kept |-> kept ]
    ELSE [ allowed |-> TRUE, kept |-> kept + 1 ]

\* select(User).where(User.email == credentials.email)
UsersByEmail(email) == { id \in DOMAIN users : users[id].email = email }

\* what makes login raise 401
InvalidCredentials(found, password) ==
    \/ found = {}
    \/ \E id \in found : ~VerifyPassword(password, users[id].hashed_password)

\* RejectedAsBanned without the check
BanNotChecked(user) == FALSE

\* what makes login raise 403
RejectedAsBanned(user) == user.is_banned

\* User.to_dict(include_private=True): the keys the payload is built from
ToDict(id, row) ==
    [ id        |-> id,
      is_admin  |-> row.is_admin,
      is_banned |-> row.is_banned,
      email     |-> row.email ]

\* UserResponse(**data): a field the data lacks takes the model's default
UserResponse(data) ==
    LET has(f) == f \in DOMAIN data IN
    [ id                |-> data.id,
      email             |-> data.email,
      is_admin          |-> data.is_admin,
      login_streak      |-> IF has("login_streak") THEN data.login_streak ELSE 0,
      best_login_streak |-> IF has("best_login_streak")
                            THEN data.best_login_streak ELSE 0,
      total_login_days  |-> IF has("total_login_days")
                            THEN data.total_login_days ELSE 0,
      streak_points     |-> IF has("streak_points") THEN data.streak_points ELSE 0,
      last_login_date   |-> IF has("last_login_date")
                            THEN data.last_login_date ELSE None ]

NoUser == "none"
NoPayload == <<>>

\* the record kept of a handled request
Call(op, id, password, today, before, r) ==
    [ op |-> op, user |-> id, password |-> password, today |-> today,
      before |-> before,
      points_earned |-> r.points_earned, streak_updated |-> r.streak_updated,
      written |-> r.written ]
Untouched == [ points_earned |-> 0, streak_updated |-> FALSE, written |-> FALSE ]

Rejected(op, id, status) ==
    /\ response' = [ status |-> status, user |-> NoPayload ]
    /\ call' = Call(op, id, None, None, <<>>, Untouched)
    /\ UNCHANGED <<users, loginDates, ordered, writes, nLogins,
                  friendships, requests>>
    /\ UNCHANGED boardVars

\* history of an accepted login of `id` on `today`
RecordLogin(id, today, written) ==
    /\ loginDates' = [loginDates EXCEPT ![id] = @ \cup {today}]
    /\ ordered' = [ordered EXCEPT ![id] =
                      @ /\ \A d \in loginDates[id] : d <= today]
    /\ writes' = IF written
                 THEN [writes EXCEPT ![id] =
                          [d \in DOMAIN @ \cup {today} |->
                              IF d = today
                              THEN (IF d \in DOMAIN @ THEN @[d] ELSE 0) + 1
                              ELSE @[d]]]
                 ELSE writes
    /\ nLogins' = nLogins + 1
    /\ UNCHANGED boardVars
    /\ UNCHANGED socialVars

\* POST /auth/login: the whole handler.  The UPDATE, commit and refresh run
\* only when the row is to be written; the payload is built from the user
\* object the handler holds.
Login(email, password, ip, today, elapsed) ==
    LET rl == CheckRateLimit(rate_limit_store[<<"login", ip>>], elapsed,
                             LOGIN_MAX_REQUESTS)
        found == UsersByEmail(email)
    IN
    /\ rate_limit_store' = [rate_limit_store EXCEPT ![<<"login", ip>>] = rl.kept]
    /\ IF ~rl.allowed THEN
          /\ log' = << [logger |-> "security", event |-> "rate_limit", ip |-> ip] >>
          /\ Rejected("login", NoUser, 429)
       ELSE IF InvalidCredentials(found, password) THEN
          /\ log' = << [logger |-> "security", event |-> "failed_login"] >>
          /\ Rejected("login", NoUser, 401)
       ELSE
          LET id == CHOOSE i \in found : TRUE
              user == users[id]
          IN
          IF RejectedAsBanned(user) THEN
             /\ log' = << [logger |-> "security", event |-> "banned_login",
                           user |-> id] >>
             /\ Rejected("login", id, 403)
          ELSE
             LET r == ApplyLogin(user, today) IN
             /\ nLogins < MaxLogins
             /\ users' = IF r.written
                         THEN [users EXCEPT ![id] = r.user]
                         ELSE users
             /\ log' = (IF r.written /\ r.streak_updated
                        THEN << [logger |-> "app", event |-> "streak_updated",
                                 user |-> id, streak |-> r.user.login_streak,
                                 points_earned |-> r.points_earned] >>
                        ELSE << >>)
                       \o << [logger |-> "security", event |-> "login_ok",
                              user |-> id] >>
             /\ response' = [ status |-> 200,
                              user |-> UserResponse(ToDict(id, r.user)) ]
             /\ call' = Call("login", id, Some(password), Some(today), user, r)
             /\ RecordLogin(id, today, r.written)

\* require_admin, then "user not found"
AdminGate(op, admin, id) ==
    IF admin \notin DOMAIN users \/ ~users[admin].is_admin THEN 403
    ELSE IF id \notin DOMAIN users THEN 404
    ELSE 200

AdminDone(op, id, status) ==
    /\ response' = [ status |-> status, user |-> NoPayload ]
    /\ call' = Call(op, NoUser, None, None, <<>>, Untouched)
    /\ UNCHANGED <<rate_limit_store, loginDates, ordered, writes, nLogins,
                  friendships, requests>>
    /\ UNCHANGED boardVars

\* POST /admin/users/{user_id}/ban
AdminBanUser(admin, id) ==
    LET gate == AdminGate("ban", admin, id)
        status == IF gate # 200 THEN gate
                  ELSE IF id = admin \/ users[id].is_admin THEN 400
                  ELSE 200
    IN
    /\ users' = IF status = 200
                THEN [users EXCEPT ![id].is_banned = TRUE]
                ELSE users
    /\ log' = IF status = 200
              THEN << [logger |-> "security", event |-> "banned", user |-> id] >>
              ELSE << >>
    /\ AdminDone("ban", id, status)

\* POST /admin/users/{user_id}/unban
AdminUnbanUser(admin, id) ==
    LET status == AdminGate("unban", admin, id) IN
    /\ users' = IF status = 200
                THEN [users EXCEPT ![id].is_banned = FALSE]
                ELSE users
    /\ log' = IF status = 200
              THEN << [logger |-> "security", event |-> "unbanned", user |-> id] >>
              ELSE << >>
    /\ AdminDone("unban", id, status)

\* ------------------------------------------------------ the Redis cache

Games == {"g1", "g2"}
\* ScoreSubmission.score and .play_time are any int
Scores == {-1} \cup 1..MaxScore
PlayTimes == {0, 2}
\* how a Redis command ends: it returns, or it raises (connection lost)
Faults == {"ok", "error"}

\* cache.redis_client is None unless REDIS_URL is set and the import works
NoClient == "none"
Client == "client"

\* CACHE_KEYS["leaderboard_global"], CACHE_KEYS["leaderboard_game"] + game_id
GlobalKey == <<"hypd", "leaderboard", "global">>
GameKey(game_id) == <<"hypd", "leaderboard", "game", game_id>>
CacheKeys == {GlobalKey} \cup { GameKey(g) : g \in Games }
\* the pattern "hypd:leaderboard:*" and the keys redis_client.keys matches
LeaderboardPattern == <<"hypd", "leaderboard">>
Matches(pattern, key) ==
    /\ Len(key) > Len(pattern)
    /\ SubSeq(key, 1, Len(pattern)) = pattern

\* json.dumps / json.loads of a list of dicts of str, int, bool and None
JsonDumps(value) == <<"json", value>>
JsonLoads(text) == text[2]

\* a key in Redis: absent, or the stored string; `at` is history, the value
\* of `commits` the stored leaderboard was computed from
Absent == <<>>
Stored(text, at) == << [ value |-> text, at |-> at ] >>

\* get_cache without the except clause: the error of the command goes on
\* to the caller
GetCacheRaises(c, client, key, fault) ==
    IF client = NoClient THEN [ raised |-> FALSE, value |-> None ]
    ELSE IF fault = "error" THEN [ raised |-> TRUE, value |-> None ]
    ELSE IF c[key] # Absent
         THEN [ raised |-> FALSE, value |-> Some(JsonLoads(c[key][1].value)) ]
         ELSE [ raised |-> FALSE, value |-> None ]

\* get_cache: None without a client, on an error of the command (logged)
\* and for an absent key, else the decoded value
GetCache(c, client, key, fault) ==
    IF client = NoClient THEN [ raised |-> FALSE, value |-> None ]
    ELSE IF fault = "error" THEN [ raised |-> FALSE, value |-> None ]
    ELSE IF c[key] # Absent
         THEN [ raised |-> FALSE, value |-> Some(JsonLoads(c[key][1].value)) ]
         ELSE [ raised |-> FALSE, value |-> None ]

\* set_cache: setex(key, ttl, json.dumps(value)); False without a client and
\* on an error
SetCache(c, client, key, value, at, fault) ==
    IF client = NoClient \/ fault = "error"
    THEN [ raised |-> FALSE, ret |-> FALSE, cache |-> c ]
    ELSE [ raised |-> FALSE, ret |-> TRUE,
           cache |-> [c EXCEPT ![key] = Stored(JsonDumps(value), at)] ]

\* delete_cache without the except clause
DeleteCacheRaises(c, client, key, fault) ==
    IF client = NoClient
    THEN [ raised |-> FALSE, ret |-> FALSE, cache |-> c, deleted |-> {} ]
    ELSE IF fault = "error"
    THEN [ raised |-> TRUE, ret |-> FALSE, cache |-> c, deleted |-> {} ]
    ELSE [ raised |-> FALSE, ret |-> TRUE, cache |-> [c EXCEPT ![key] = Absent],
           deleted |-> {key} ]

\* delete_cache: False without a client and on an error; `deleted` is
\* history, the keys the command made sure are gone
DeleteCache(c, client, key, fault) ==
    IF client = NoClient \/ fault = "error"
    THEN [ raised |-> FALSE, ret |-> FALSE, cache |-> c, deleted |-> {} ]
    ELSE [ raised |-> FALSE, ret |-> TRUE, cache |-> [c EXCEPT ![key] = Absent],
           deleted |-> {key} ]

\* DeletePattern that finds no key
DeletePatternNoKeys(c, client, pattern, fault) ==
    [ raised |-> FALSE, ret |-> 0, cache |-> c, deleted |-> {} ]

\* delete_pattern: the number of keys deleted; 0 without a client, on an
\* error of keys() or delete(), and when no key matches
DeletePattern(c, client, pattern, fault) ==
    IF client = NoClient \/ fault = "error"
    THEN [ raised |-> FALSE, ret |-> 0, cache |-> c, deleted |-> {} ]
    ELSE LET keys == { k \in DOMAIN c : Matches(pattern, k) /\ c[k] # Absent }
         IN  [ raised |-> FALSE, ret |-> Cardinality(keys),
               cache |-> [ k \in DOMAIN c |-> IF k \in keys THEN Absent ELSE c[k] ],
               deleted |-> { k \in DOMAIN c : Matches(pattern, k) } ]

\* the key get_leaderboard / set_leaderboard use: game_id is None or a game
LeaderboardKey(game_id) ==
    IF game_id # None THEN GameKey(game_id[1]) ELSE GlobalKey

\* get_leaderboard
GetLeaderboard(c, client, game_id, fault) ==
    GetCache(c, client, LeaderboardKey(game_id), fault)

\* set_leaderboard
SetLeaderboard(c, client, data, game_id, at, fault) ==
    SetCache(c, client, LeaderboardKey(game_id), data, at, fault)

\* invalidate_leaderboard: the game's key, or with no game every key under
\* "hypd:leaderboard:*", and then True whatever happened; `inner` is what
\* delete_cache or delete_pattern returned
InvalidateLeaderboard(c, client, game_id, fault) ==
    LET d == IF game_id # None
             THEN DeleteCache(c, client, GameKey(game_id[1]), fault)
             ELSE DeletePattern(c, client, LeaderboardPattern, fault)
    IN  [ raised  |-> d.raised,
          ret     |-> IF game_id # None THEN d.ret ELSE TRUE,
          inner   |-> d.ret,
          cache   |-> d.cache,
          deleted |-> d.deleted ]

\* `if cached:` a list that is not empty
Truthy(cached) == cached # None /\ cached[1] # << >>

\* the error records cache.py logs for the commands that raised
CacheErrors(ops) ==
    [ i \in 1..Len(ops) |-> [ logger |-> "cache", event |-> ops[i] ] ]

\* -------------------------------------------------------- leaderboards

\* limit: int = 50
DEFAULT_LIMIT == 50
Limits == {1, DEFAULT_LIMIT}

\* the orders in which a SELECT without ORDER BY can return the rows
FetchOrders(rows) ==
    { s \in [1..Cardinality(DOMAIN rows) -> DOMAIN rows] :
        \A i, j \in DOMAIN s : i # j => s[i] # s[j] }

\* sort keys are tuples of integers of one length, compared left to right
KeyLess(a, b) ==
    \E i \in 1..Len(a) :
        /\ a[i] < b[i]
        /\ \A j \in 1..(i - 1) : a[j] = b[j]

\* InsertDesc that leaves the items in the order they came in
InsertLast(sorted, x) == Append(sorted, x)

\* InsertDesc that puts an item in front of the items of equal key
InsertBeforeTies(sorted, x) ==
    LET k == Cardinality({ i \in 1..Len(sorted) : KeyLess(x.key, sorted[i].key) })
    IN  SubSeq(sorted, 1, k) \o <<x>> \o SubSeq(sorted, k + 1, Len(sorted))

\* list.sort(key=..., reverse=True) and ORDER BY ... DESC: descending, the
\* items of equal key in the order they came in
InsertDesc(sorted, x) ==
    LET k == Cardinality({ i \in 1..Len(sorted) : ~KeyLess(sorted[i].key, x.key) })
    IN  SubSeq(sorted, 1, k) \o <<x>> \o SubSeq(sorted, k + 1, Len(sorted))
RECURSIVE SortDesc(_)
SortDesc(s) ==
    IF s = << >> THEN << >>
    ELSE InsertDesc(SortDesc(SubSeq(s, 1, Len(s) - 1)), s[Len(s)])

\* s[:limit] and LIMIT limit, for limit >= 0
Take(s, limit) == SubSeq(s, 1, IF limit < Len(s) THEN limit ELSE Len(s))

\* `u.high_scores and game_id in u.high_scores`
HasScore(row, game_id) ==
    DOMAIN row.high_scores # {} /\ game_id \in DOMAIN row.high_scores

\* get_game_leaderboard, the computation: the rows in the order fetched,
\* those with a score for the game, sorted, cut at limit, ranked
GameLeaderboard(rows, fetched, game_id, limit) ==
    LET with == SelectSeq(fetched, LAMBDA id : HasScore(rows[id], game_id))
        scores == [ i \in 1..Len(with) |->
                      [ key   |-> << rows[with[i]].high_scores[game_id] >>,
                        user  |-> with[i],
                        score |-> rows[with[i]].high_scores[game_id] ] ]
        top == Take(SortDesc(scores), limit)
    IN  [ i \in 1..Len(top) |->
            [ rank |-> i, user |-> top[i].user, score |-> top[i].score ] ]

\* get_global_leaderboard, the computation: ORDER BY total_games_played
\* DESC, total_play_time DESC LIMIT limit, ranked by enumerate(users, 1)
GlobalLeaderboard(rows, fetched, limit) ==
    LET all == [ i \in 1..Len(fetched) |->
                   [ key  |-> << rows[fetched[i]].total_games_played,
                                 rows[fetched[i]].total_play_time >>,
                     user |-> fetched[i] ] ]
        top == Take(SortDesc(all), limit)
    IN  [ i \in 1..Len(top) |->
            [ rank        |-> i,
              user        |-> top[i].user,
              total_games |-> rows[top[i].user].total_games_played,
              total_time  |-> rows[top[i].user].total_play_time ] ]

\* the record kept of a leaderboard read
ReadCall(op, game_id, limit, faults, hit, set, at, computed, fetched) ==
    [ op |-> op, user |-> NoUser, game |-> game_id, limit |-> limit,
      faults |-> faults, hit |-> hit, set |-> set, at |-> at,
      computed |-> computed, fetched |-> fetched ]

\* a leaderboard read, either one: the cached list when there is one that
\* is not empty, else the list computed from the table, which is stored
ReadLeaderboard(op, game_id, limit, computed, fetched, fget, fset) ==
    LET got == GetLeaderboard(cache, redis_client, game_id, fget)
        hit == Truthy(got.value)
        set == SetLeaderboard(cache, redis_client, computed, game_id, commits, fset)
    IN
    /\ cache' = IF hit THEN cache ELSE set.cache
    /\ response' =
          IF got.raised \/ (~hit /\ set.raised)
          THEN [ status |-> 500, leaderboard |-> << >>, cached |-> FALSE ]
          ELSE [ status      |-> 200,
                 leaderboard |-> IF hit THEN got.value[1] ELSE computed,
                 cached      |-> hit ]
    /\ call' = ReadCall(op, game_id, limit, <<fget, fset>>, hit,
                        IF hit THEN None ELSE Some(set.ret),
                        IF hit THEN cache[LeaderboardKey(game_id)][1].at
                        ELSE commits,
                        IF hit THEN None ELSE Some(computed),
                        IF hit THEN None ELSE Some(fetched))
    /\ log' = CacheErrors((IF redis_client # NoClient /\ fget = "error"
                           THEN <<"get_error">> ELSE << >>)
                     \o (IF ~hit /\ redis_client # NoClient /\ fset = "error"
                         THEN <<"set_error">> ELSE << >>))
    /\ UNCHANGED <<users, rate_limit_store, loginDates, ordered, writes,
                   nLogins, redis_client, commits, invalidatedAt, proc,
                  friendships, requests>>

\* GET /leaderboard/global
GetGlobalLeaderboard(limit, fetched, fget, fset) ==
    ReadLeaderboard("global_leaderboard", None, limit,
                    GlobalLeaderboard(users, fetched, limit), fetched, fget, fset)

\* GET /leaderboard/game/{game_id}
GetGameLeaderboard(game_id, limit, fetched, fget, fset) ==
    ReadLeaderboard("game_leaderboard", Some(game_id), limit,
                    GameLeaderboard(users, fetched, game_id, limit), fetched,
                    fget, fset)

\* the TTL of a stored leaderboard runs out: Redis drops the key
Expire(key) ==
    /\ cache[key] # Absent
    /\ cache' = [cache EXCEPT ![key] = Absent]
    /\ call' = [ op |-> "expire", user |-> NoUser, key |-> key ]
    /\ log' = << >>
    /\ UNCHANGED <<users, rate_limit_store, response, loginDates, ordered,
                   writes, nLogins, redis_client, commits, invalidatedAt, proc,
                  friendships, requests>>

\* ------------------------------------------------------ score submission

\* high_scores[game_id] = score on a dict
Put(scores, game_id, score) ==
    [ g \in DOMAIN scores \cup {game_id} |->
        IF g = game_id THEN score ELSE scores[g] ]

\* high_scores.get(game_id, default)
Get(scores, game_id, default) ==
    IF game_id \in DOMAIN scores THEN scores[game_id] ELSE default

\* `user.high_scores or {}`: the loaded dict itself unless it is empty (or
\* NULL), and then a new dict
SameObject(loaded) == DOMAIN loaded # {}

\* commit of the user object, column high_scores (Column(JSON), no mutable
\* extension): the unit of work writes a column when the value assigned to
\* the attribute differs from the value it held before the assignment.  A
\* dict changed in place and assigned back is the value held before, so it
\* is never written; a new dict is written when it differs.
Flushed(loaded, assigned, same_object) ==
    IF same_object THEN loaded ELSE assigned

\* the locals of submit_score after line 2115
ScoreLocals(user, game_id, score) ==
    LET loaded == user.high_scores
        current_high == Get(loaded, game_id, 0)
        new_high == score > current_high
        high_scores == IF new_high THEN Put(loaded, game_id, score) ELSE loaded
    IN  [ current_high |-> current_high,
          new_high     |-> new_high,
          high_scores  |-> high_scores,
          stored       |-> IF new_high
                           THEN Flushed(loaded, high_scores, SameObject(loaded))
                           ELSE loaded ]

\* the row db.commit() leaves
ScoredRow(user, locals, play_time) ==
    [ user EXCEPT !.high_scores = locals.stored,
                  !.total_games_played = @ + 1,
                  !.total_play_time = @ + play_time ]

\* the two invalidations of submit_score, the game's key and then all
Invalidations(c, client, game_id, f1, f2) ==
    LET d1 == InvalidateLeaderboard(c, client, Some(game_id), f1)
        d2 == InvalidateLeaderboard(d1.cache, client, None, f2)
    IN  [ raised |-> d1.raised \/ d2.raised,
          rets |-> << d1.ret, d2.ret >>,
          inner |-> << d1.inner, d2.inner >>,
          cache |-> IF d1.raised THEN c ELSE d2.cache,
          deleted |-> IF d1.raised THEN {} ELSE d1.deleted \cup d2.deleted ]

\* POST /leaderboard/submit: the whole handler.  get_current_user answers
\* 401 for a token of no user.
SubmitScore(id, game_id, score, play_time, f1, f2) ==
    IF id \notin DOMAIN users THEN
       /\ response' = [ status |-> 401 ]
       /\ call' = [ op |-> "submit", user |-> NoUser ]
       /\ log' = << >>
       /\ UNCHANGED <<users, rate_limit_store, loginDates, ordered, writes,
                      nLogins,
                  friendships, requests>>
       /\ UNCHANGED boardVars
    ELSE
       LET user == users[id]
           l == ScoreLocals(user, game_id, score)
           inv == Invalidations(cache, redis_client, game_id, f1, f2)
       IN
       /\ commits < MaxSubmits
       /\ users' = [users EXCEPT ![id] = ScoredRow(user, l, play_time)]
       /\ commits' = commits + 1
       /\ cache' = inv.cache
       /\ invalidatedAt' = [ k \in DOMAIN invalidatedAt |->
                               IF k \in inv.deleted THEN commits + 1
                               ELSE invalidatedAt[k] ]
       /\ response' =
             IF inv.raised THEN [ status |-> 500 ]
             ELSE [ status         |-> 200,
                    success        |-> TRUE,
                    new_high_score |-> score > l.current_high,
                    high_score     |-> Get(l.high_scores, game_id, score) ]
       /\ call' = [ op |-> "submit", user |-> id, game |-> game_id,
                    score |-> score, play_time |-> play_time, before |-> user,
                    faults |-> <<f1, f2>>, rets |-> inv.rets,
                    inner |-> inv.inner,
                    cached_before |-> { k \in DOMAIN cache : cache[k] # Absent } ]
       /\ log' = CacheErrors((IF redis_client # NoClient /\ f1 = "error"
                              THEN <<"delete_error">> ELSE << >>)
                        \o (IF redis_client # NoClient /\ f2 = "error"
                            THEN <<"delete_pattern_error">> ELSE << >>))
       /\ UNCHANGED <<rate_limit_store, loginDates, ordered, writes, nLogins,
                      redis_client, proc,
                  friendships, requests>>

\* ------------------------------------------- accounts and streak reads

\* max_requests passed by register to check_rate_limit
REGISTER_MAX_REQUESTS == 5

\* the ids uuid4 can give a new row
AllIds == Users \cup {"u3"}
Usernames == {"admin", "player", "rookie"}

\* POST /auth/register: the whole handler
Register(username, email, password, ip, elapsed) ==
    LET rl == CheckRateLimit(rate_limit_store[<<"register", ip>>], elapsed,
                             REGISTER_MAX_REQUESTS)
        id == CHOOSE i \in AllIds \ DOMAIN users : TRUE
        row == NewUser(username, email, password, FALSE)
    IN
    /\ rate_limit_store' =
          [rate_limit_store EXCEPT ![<<"register", ip>>] = rl.kept]
    /\ IF ~rl.allowed THEN
          /\ log' = << [logger |-> "security", event |-> "rate_limit", ip |-> ip] >>
          /\ Rejected("register", NoUser, 429)
       ELSE IF UsersByEmail(email) # {} THEN
          /\ log' = << [logger |-> "security", event |-> "existing_email"] >>
          /\ Rejected("register", NoUser, 400)
       ELSE IF \E i \in DOMAIN users : users[i].username = username THEN
          /\ log' = << >>
          /\ Rejected("register", NoUser, 400)
       ELSE
          /\ AllIds \ DOMAIN users # {}
          /\ users' = [ i \in DOMAIN users \cup {id} |->
                          IF i = id THEN row ELSE users[i] ]
          /\ log' = << [logger |-> "security", event |-> "registered",
                        user |-> id] >>
          /\ response' = [ status |-> 200, user |-> UserResponse(ToDict(id, row)) ]
          /\ call' = Call("register", id, Some(password), None, <<>>, Untouched)
          /\ UNCHANGED <<loginDates, ordered, writes, nLogins,
                  friendships, requests>>
          /\ UNCHANGED boardVars

\* the milestones of get_user_streak
Milestones == {7, 14, 30, 60, 90, 180, 365}

\* NextMilestone that also offers the milestone the streak stands on
NextMilestoneInclusive(current_streak) ==
    LET above == { m \in Milestones : current_streak <= m } IN
    IF above = {} THEN None
    ELSE Some(CHOOSE m \in above : \A n \in above : m <= n)

\* the first milestone above the streak, or None
NextMilestone(current_streak) ==
    LET above == { m \in Milestones : current_streak < m } IN
    IF above = {} THEN None
    ELSE Some(CHOOSE m \in above : \A n \in above : m <= n)

\* ten times the bonus multiplier (a multiple of one half)
Multiplier10(current_streak) ==
    IF current_streak <= 7 THEN 10 * current_streak
    ELSE IF current_streak <= 30 THEN 70 + (current_streak - 7) * 15
    ELSE 70 + 345 + (current_streak - 30) * 20

\* streak_active that counts only a login of the same day
StreakActiveSameDay(last_login, today) ==
    last_login # None /\ today - last_login[1] <= 0

\* streak_active: False unless last_login is set, then days_since_login <= 1
StreakActive(last_login, today) ==
    last_login # None /\ today - last_login[1] <= 1

\* the payload of get_user_streak
StreakStatus(user, today) ==
    LET last_login == user.last_login_date
        next == NextMilestone(user.login_streak)
    IN  [ current_streak     |-> user.login_streak,
          best_streak        |-> user.best_login_streak,
          total_login_days   |-> user.total_login_days,
          streak_points      |-> user.streak_points,
          last_login_date    |-> IF last_login # None
                                 THEN << "iso", last_login[1] >> ELSE None,
          streak_active      |-> StreakActive(last_login, today),
          next_milestone     |-> next,
          days_to_milestone  |-> IF next = None THEN None
                                 ELSE Some(next[1] - user.login_streak),
          current_multiplier |-> Multiplier10(user.login_streak) ]

\* what a handler that writes nothing leaves alone
ReadOnly ==
    /\ UNCHANGED <<users, rate_limit_store, loginDates, ordered, writes, nLogins,
                  friendships, requests>>
    /\ UNCHANGED boardVars

\* GET /user/streak
GetUserStreak(id, today) ==
    /\ response' = IF id \notin DOMAIN users THEN [ status |-> 401 ]
                   ELSE [ status |-> 200, streak |-> StreakStatus(users[id], today) ]
    /\ call' = [ op |-> "streak", user |-> id, today |-> today ]
    /\ log' = << >>
    /\ ReadOnly

\* StreakLeaderboard without the WHERE clause
StreakLeaderboardWithBanned(rows, fetched, limit) ==
    LET all == [ i \in 1..Len(fetched) |->
                   [ key |-> << rows[fetched[i]].login_streak >>, user |-> fetched[i] ] ]
        top == Take(SortDesc(all), limit)
    IN  [ i \in 1..Len(top) |->
            [ rank          |-> i,
              username      |-> rows[top[i].user].username,
              login_streak  |-> rows[top[i].user].login_streak,
              best_streak   |-> rows[top[i].user].best_login_streak,
              streak_points |-> rows[top[i].user].streak_points ] ]

\* get_streak_leaderboard, the computation: the rows that are not banned,
\* ORDER BY login_streak DESC LIMIT limit
StreakLeaderboard(rows, fetched, limit) ==
    LET open == SelectSeq(fetched, LAMBDA id : ~rows[id].is_banned)
        all == [ i \in 1..Len(open) |->
                   [ key |-> << rows[open[i]].login_streak >>, user |-> open[i] ] ]
        top == Take(SortDesc(all), limit)
    IN  [ i \in 1..Len(top) |->
            [ rank          |-> i,
              username      |-> rows[top[i].user].username,
              login_streak  |-> rows[top[i].user].login_streak,
              best_streak   |-> rows[top[i].user].best_login_streak,
              streak_points |-> rows[top[i].user].streak_points ] ]

\* GET /user/streak/leaderboard; `limit` is any integer of the query string,
\* and PostgreSQL refuses a negative LIMIT, which fails the request
GetStreakLeaderboard(limit, fetched) ==
    /\ response' = IF limit < 0 THEN [ status |-> 500 ]
                   ELSE [ status |-> 200,
                          leaderboard |-> StreakLeaderboard(users, fetched, limit) ]
    /\ call' = [ op |-> "streak_leaderboard", user |-> NoUser, limit |-> limit,
                 fetched |-> fetched ]
    /\ log' = << >>
    /\ ReadOnly

\* the bodies of PUT /admin/users/{user_id}: the fields that are set
UserUpdates ==
    { [ is_banned |-> TRUE ], [ is_admin |-> FALSE ], [ email |-> "nobody@x" ] }

\* ApplyUpdate that also clears the streak of the row
ApplyUpdateClearsStreak(row, update_data) ==
    [ f \in DOMAIN row |->
        IF f \in DOMAIN update_data THEN update_data[f]
        ELSE IF f = "login_streak" THEN 0
        ELSE row[f] ]

\* update(User).values(**update_data)
ApplyUpdate(row, update_data) ==
    [ f \in DOMAIN row |->
        IF f \in DOMAIN update_data THEN update_data[f] ELSE row[f] ]

\* what admin_update_user answers
UpdateStatus(admin, id, update_data) ==
    LET gate == AdminGate("update", admin, id)
        set(f) == f \in DOMAIN update_data
    IN
    IF gate # 200 THEN gate
    ELSE IF id = admin /\ set("is_admin") /\ update_data.is_admin = FALSE THEN 400
    ELSE IF /\ set("username")
            /\ update_data.username # users[id].username
            /\ \E i \in DOMAIN users : users[i].username = update_data.username
         THEN 400
    ELSE IF /\ set("email")
            /\ update_data.email # users[id].email
            /\ UsersByEmail(update_data.email) # {}
         THEN 400
    ELSE 200

\* PUT /admin/users/{user_id}: the whole handler
AdminUpdateUser(admin, id, update_data) ==
    LET status == UpdateStatus(admin, id, update_data) IN
    /\ users' = IF status = 200
                THEN [users EXCEPT ![id] = ApplyUpdate(@, update_data)]
                ELSE users
    /\ response' = [ status |-> status, user |-> NoPayload ]
    /\ call' = [ op |-> "admin_update", user |-> NoUser, target |-> id,
                 update_data |-> update_data ]
    /\ log' = << >>
    /\ UNCHANGED <<rate_limit_store, loginDates, ordered, writes, nLogins,
                  friendships, requests>>
    /\ UNCHANGED boardVars

\* no friendship row yet
NoFriends ==
    /\ friendships = {}
    /\ requests = 0

\* no cache configured, nothing submitted, no request in flight
NoBoard ==
    /\ redis_client = NoClient
    /\ cache = [ k \in CacheKeys |-> Absent ]
    /\ commits = 0
    /\ invalidatedAt = [ k \in CacheKeys |-> 0 ]
    /\ proc = << >>

\* ------------------------------------------------------ the specification

\* the row after `k` accepted logins on the k consecutive days ending on
\* `day`: as in Login, a login replaces the row when it writes it
RECURSIVE AfterRun(_, _, _)
AfterRun(row, k, day) ==
    IF k = 0 THEN row
    ELSE LET r == ApplyLogin(row, day - k + 1) IN
         IF r.written THEN AfterRun(r.user, k - 1, day)
         ELSE AfterRun(row, k - 1, day)

\* the users table when the run starts: an admin account with a run of
\* daily logins behind it, and an account that has never logged in
Init ==
    /\ \E k \in SeedRuns :
          /\ users = [ id \in Users |->
                         IF id = "u1"
                         THEN AfterRun(NewUser("admin", "u1@x", "Passw0rd", TRUE), k, 0)
                         ELSE NewUser("player", "u2@x", "Passw0rd", FALSE) ]
          /\ loginDates = [ id \in Users |->
                              IF id = "u1" THEN (1 - k)..0 ELSE {} ]
          /\ writes = [ id \in Users |->
                          IF id = "u1" THEN [d \in (1 - k)..0 |-> 1]
                          ELSE [d \in {} |-> 0] ]
    /\ rate_limit_store = [ k \in RateKeys |-> 0 ]
    /\ response = [ status |-> 0, user |-> NoPayload ]
    /\ call = Call("start", NoUser, None, None, <<>>, Untouched)
    /\ log = << >>
    /\ ordered = [ id \in Users |-> TRUE ]
    /\ nLogins = 0
    /\ NoFriends
    /\ NoBoard

DoLogin ==
    \E email \in Emails, password \in Passwords, ip \in IPs, today \in Days :
        \E elapsed \in Elapsed :
            Login(email, password, ip, today, elapsed)

DoBan == \E admin \in Users, id \in Users : AdminBanUser(admin, id)

DoUnban == \E admin \in Users, id \in Users : AdminUnbanUser(admin, id)

Next == DoLogin \/ DoBan \/ DoUnban

Spec == Init /\ [][Next]_vars

\* values a stored streak_points column is drawn from
StoredPoints == {0, 5}

\* The users table taken as given: the login handler reads whatever row the
\* table holds, so the first account's streak columns are drawn from the
\* values their column types admit (never logged in, or logged in once on
\* day 0, with any stored points).
InitStored ==
    /\ \E pts \in StoredPoints, k \in {0, 1} :
          LET row == [ AfterRun(NewUser("admin", "u1@x", "Passw0rd", TRUE), k, 0)
                         EXCEPT !.streak_points = pts ]
          IN
          /\ users = [ id \in Users |->
                         IF id = "u1" THEN row
                         ELSE NewUser("player", "u2@x", "Passw0rd", FALSE) ]
          /\ loginDates = [ id \in Users |->
                              IF id = "u1" THEN (1 - k)..0 ELSE {} ]
          /\ writes = [ id \in Users |->
                          IF id = "u1" THEN [d \in (1 - k)..0 |-> 1]
                          ELSE [d \in {} |-> 0] ]
    /\ rate_limit_store = [ k \in RateKeys |-> 0 ]
    /\ response = [ status |-> 0, user |-> NoPayload ]
    /\ call = Call("start", NoUser, None, None, <<>>, Untouched)
    /\ log = << >>
    /\ ordered = [ id \in Users |-> TRUE ]
    /\ nLogins = 0
    /\ NoFriends
    /\ NoBoard

SpecStored == InitStored /\ [][Next]_vars

\* ---------------------------------------- accounts, streak reads, scores

\* the lengths of the run of daily logins the admin account has behind it
AccountRuns == {6}

\* the users table with the admin account and one player; no cache is
\* configured
InitAccounts ==
    /\ \E k \in AccountRuns :
          /\ users = [ id \in Users |->
                         IF id = "u1"
                         THEN AfterRun(NewUser("admin", "u1@x", "Passw0rd", TRUE),
                                       k, 0)
                         ELSE NewUser("player", "u2@x", "Passw0rd", FALSE) ]
          /\ loginDates = [ id \in AllIds |->
                              IF id = "u1" THEN (1 - k)..0 ELSE {} ]
          /\ writes = [ id \in AllIds |->
                          IF id = "u1" THEN [d \in (1 - k)..0 |-> 1]
                          ELSE [d \in {} |-> 0] ]
    /\ rate_limit_store = [ k \in RateKeys |-> 0 ]
    /\ response = [ status |-> 0, user |-> NoPayload ]
    /\ call = Call("start", NoUser, None, None, <<>>, Untouched)
    /\ log = << >>
    /\ ordered = [ id \in AllIds |-> TRUE ]
    /\ nLogins = 0
    /\ NoFriends
    /\ NoBoard

\* the admin logs in with the right password, the rate-limit window gone
\* by, on the day of the last login or on the day after
DoLoginDaily ==
    \E ip \in IPs, today \in {0, 1} :
        Login("u1@x", "Passw0rd", ip, today, "window_passed")

\* a registration with a new name and address, and one with a taken address
DoRegister ==
    \E email \in {"u2@x", "nobody@x"}, ip \in IPs :
        Register("rookie", email, "Passw0rd", ip, "window_passed")

DoUserStreak == GetUserStreak("u1", MaxDay)

DoStreakLeaderboard ==
    \E fetched \in FetchOrders(users) :
        GetStreakLeaderboard(DEFAULT_LIMIT, fetched)

DoAdminUpdate ==
    \E id \in Users, update_data \in UserUpdates :
        AdminUpdateUser("u1", id, update_data)

\* the admin submits a score
DoSubmitScore ==
    \E score \in {0, MaxScore} :
        SubmitScore("u1", "g1", score, 2, "ok", "ok")

NextAccounts ==
    \/ DoLoginDaily
    \/ DoRegister
    \/ DoUserStreak
    \/ DoStreakLeaderboard
    \/ DoAdminUpdate
    \/ DoSubmitScore
    \/ DoBan

SpecAccounts == InitAccounts /\ [][NextAccounts]_vars

\* ------------------------------------------------ leaderboards and cache

\* two accounts as register leaves them, no score submitted yet; the cache
\* is configured or not, and empty
InitBoard ==
    /\ users = [ id \in Users |->
                   IF id = "u1" THEN NewUser("admin", "u1@x", "Passw0rd", TRUE)
                   ELSE NewUser("player", "u2@x", "Passw0rd", FALSE) ]
    /\ loginDates = [ id \in Users |-> {} ]
    /\ writes = [ id \in Users |-> [d \in {} |-> 0] ]
    /\ rate_limit_store = [ k \in RateKeys |-> 0 ]
    /\ response = [ status |-> 0, user |-> NoPayload ]
    /\ call = Call("start", NoUser, None, None, <<>>, Untouched)
    /\ log = << >>
    /\ ordered = [ id \in Users |-> TRUE ]
    /\ nLogins = 0
    /\ NoFriends
    /\ redis_client \in {NoClient, Client}
    /\ cache = [ k \in CacheKeys |-> Absent ]
    /\ commits = 0
    /\ invalidatedAt = [ k \in CacheKeys |-> 0 ]
    /\ proc = << >>

\* a submission to the first game: a score above zero, some play time.
\* Redis answers the commands of one request, or none of them.
DoSubmit ==
    \E id \in Users, score \in {1, 2}, play_time \in PlayTimes :
        \E fault \in Faults :
            SubmitScore(id, "g1", score, play_time, fault, fault)

DoGlobalLeaderboard ==
    \E fetched \in FetchOrders(users), fault \in Faults :
        GetGlobalLeaderboard(DEFAULT_LIMIT, fetched, fault, fault)

DoGameLeaderboard ==
    \E fetched \in FetchOrders(users), fault \in Faults :
        GetGameLeaderboard("g1", DEFAULT_LIMIT, fetched, fault, fault)

DoExpire == \E key \in CacheKeys : Expire(key)

NextBoard == DoSubmit \/ DoGlobalLeaderboard \/ DoGameLeaderboard \/ DoExpire

SpecBoard == InitBoard /\ [][NextBoard]_vars

\* ------------------------------------------------- scores without a cache

\* as InitBoard, REDIS_URL not set
InitScores == InitBoard /\ redis_client = NoClient

\* a submission of any score to either game
DoSubmitAny ==
    \E id \in Users, game_id \in Games, score \in Scores :
        \E play_time \in PlayTimes :
            SubmitScore(id, game_id, score, play_time, "ok", "ok")

DoReadGame ==
    \E game_id \in Games, fetched \in FetchOrders(users) :
        GetGameLeaderboard(game_id, DEFAULT_LIMIT, fetched, "ok", "ok")

NextScores == DoSubmitAny \/ DoReadGame

SpecScores == InitScores /\ [][NextScores]_vars

\* ------------------------------- concurrent reads and a score submission

\* Requests run as tasks that interleave where a handler awaits the
\* database; between two awaits a handler runs alone.  A leaderboard read
\* is three steps (the cache lookup, the SELECT, the computation with the
\* store into the cache), a score submission three (the SELECT of the
\* user, the commit, the two invalidations).
Readers == {"r1", "r2"}
Writers == {"w1"}

\* the request each task handles: reads of the first game's leaderboard,
\* and a submission by the admin of a score of 2 after 2 seconds of play
RaceGame == "g1"
RaceSubmission == [ user |-> "u1", score |-> 2, play_time |-> 2 ]

Idle(p) ==
    IF p \in Readers
    THEN [ pc |-> "idle", floor |-> 0, rows |-> << >>, fetched |-> << >>,
           at |-> 0, served |-> None ]
    ELSE [ pc |-> "idle", loaded |-> << >> ]

\* the table after the player has submitted a first score of 1; Redis is
\* configured and empty
InitRace ==
    /\ users = [ id \in Users |->
                   IF id = "u1" THEN NewUser("admin", "u1@x", "Passw0rd", TRUE)
                   ELSE LET row == NewUser("player", "u2@x", "Passw0rd", FALSE)
                        IN  ScoredRow(row, ScoreLocals(row, RaceGame, 1), 2) ]
    /\ loginDates = [ id \in Users |-> {} ]
    /\ writes = [ id \in Users |-> [d \in {} |-> 0] ]
    /\ rate_limit_store = [ k \in RateKeys |-> 0 ]
    /\ response = [ status |-> 0, user |-> NoPayload ]
    /\ call = Call("start", NoUser, None, None, <<>>, Untouched)
    /\ log = << >>
    /\ ordered = [ id \in Users |-> TRUE ]
    /\ nLogins = 0
    /\ NoFriends
    /\ redis_client = Client
    /\ cache = [ k \in CacheKeys |-> Absent ]
    /\ commits = 0
    /\ invalidatedAt = [ k \in CacheKeys |-> 0 ]
    /\ proc = [ p \in Readers \cup Writers |-> Idle(p) ]

\* what a step of a task leaves alone, and the record of the step
Step(op, p) ==
    /\ call' = [ op |-> op, user |-> NoUser, task |-> p ]
    /\ log' = << >>
    /\ UNCHANGED <<rate_limit_store, loginDates, ordered, writes, nLogins,
                   redis_client,
                  friendships, requests>>

\* get_game_leaderboard to its first await: the cache lookup, and the
\* return of what it found; `floor` is history, the commit count at the
\* last deletion of the key before this read began
ReadStart(p) ==
    LET got == GetLeaderboard(cache, redis_client, Some(RaceGame), "ok")
        hit == Truthy(got.value)
        key == GameKey(RaceGame)
    IN
    /\ proc[p].pc = "idle"
    /\ proc' = [proc EXCEPT ![p] =
                  IF hit
                  THEN [ @ EXCEPT !.pc = "done", !.floor = invalidatedAt[key],
                                  !.at = cache[key][1].at,
                                  !.served = Some(got.value[1]) ]
                  ELSE [ @ EXCEPT !.pc = "miss", !.floor = invalidatedAt[key] ]]
    /\ response' = IF hit
                   THEN [ status |-> 200, leaderboard |-> got.value[1],
                          cached |-> TRUE ]
                   ELSE response
    /\ Step("read_start", p)
    /\ UNCHANGED <<users, cache, commits, invalidatedAt>>

\* `await db.execute(select(User))`: the rows as committed at this moment
ReadFetch(p, fetched) ==
    /\ proc[p].pc = "miss"
    /\ proc' = [proc EXCEPT ![p] =
                  [ @ EXCEPT !.pc = "fetched", !.rows = users,
                             !.fetched = fetched, !.at = commits ]]
    /\ Step("read_fetch", p)
    /\ UNCHANGED <<users, response, cache, commits, invalidatedAt>>

\* get_game_leaderboard after the await: sort, rank, set_leaderboard, return
ReadStore(p) ==
    LET lb == GameLeaderboard(proc[p].rows, proc[p].fetched, RaceGame,
                              DEFAULT_LIMIT)
        set == SetLeaderboard(cache, redis_client, lb, Some(RaceGame),
                              proc[p].at, "ok")
    IN
    /\ proc[p].pc = "fetched"
    /\ cache' = set.cache
    /\ proc' = [proc EXCEPT ![p] = [ @ EXCEPT !.pc = "done", !.served = Some(lb) ]]
    /\ response' = [ status |-> 200, leaderboard |-> lb, cached |-> FALSE ]
    /\ Step("read_store", p)
    /\ UNCHANGED <<users, commits, invalidatedAt>>

\* get_current_user: the row of the submitting user as committed now
WriteLoad(p) ==
    /\ proc[p].pc = "idle"
    /\ proc' = [proc EXCEPT ![p] =
                  [ @ EXCEPT !.pc = "loaded",
                             !.loaded = users[RaceSubmission.user] ]]
    /\ Step("write_load", p)
    /\ UNCHANGED <<users, response, cache, commits, invalidatedAt>>

\* submit_score to `await db.commit()`: the columns assigned on the loaded
\* object are written to the row
WriteCommit(p) ==
    LET id == RaceSubmission.user
        l == ScoreLocals(proc[p].loaded, RaceGame, RaceSubmission.score)
        new == ScoredRow(proc[p].loaded, l, RaceSubmission.play_time)
    IN
    /\ proc[p].pc = "loaded"
    /\ commits < MaxSubmits
    /\ users' = [users EXCEPT ![id] =
                    [ @ EXCEPT !.high_scores =
                                   IF new.high_scores # proc[p].loaded.high_scores
                                   THEN new.high_scores ELSE @,
                               !.total_games_played = new.total_games_played,
                               !.total_play_time = new.total_play_time ]]
    /\ commits' = commits + 1
    /\ proc' = [proc EXCEPT ![p] = [ @ EXCEPT !.pc = "committed" ]]
    /\ Step("write_commit", p)
    /\ UNCHANGED <<response, cache, invalidatedAt>>

\* submit_score after the commit: the two invalidations and the return
WriteInvalidate(p) ==
    LET l == ScoreLocals(proc[p].loaded, RaceGame, RaceSubmission.score)
        inv == Invalidations(cache, redis_client, RaceGame, "ok", "ok")
    IN
    /\ proc[p].pc = "committed"
    /\ cache' = inv.cache
    /\ invalidatedAt' = [ k \in DOMAIN invalidatedAt |->
                            IF k \in inv.deleted THEN commits
                            ELSE invalidatedAt[k] ]
    /\ proc' = [proc EXCEPT ![p] = [ @ EXCEPT !.pc = "done" ]]
    /\ response' = [ status         |-> 200,
                     success        |-> TRUE,
                     new_high_score |-> RaceSubmission.score > l.current_high,
                     high_score     |-> Get(l.high_scores, RaceGame,
                                            RaceSubmission.score) ]
    /\ Step("write_invalidate", p)
    /\ UNCHANGED <<users, commits>>

DoReadStart == \E p \in Readers : ReadStart(p)
DoReadFetch == \E p \in Readers, fetched \in FetchOrders(users) : ReadFetch(p, fetched)
DoReadStore == \E p \in Readers : ReadStore(p)
DoWriteLoad == \E p \in Writers : WriteLoad(p)
DoWriteCommit == \E p \in Writers : WriteCommit(p)
DoWriteInvalidate == \E p \in Writers : WriteInvalidate(p)

NextRace ==
    \/ DoReadStart
    \/ DoReadFetch
    \/ DoReadStore
    \/ DoWriteLoad
    \/ DoWriteCommit
    \/ DoWriteInvalidate

SpecRace == InitRace /\ [][NextRace]_vars

\* ------------------------------------------- concurrent logins of a user

Logins == {"l1", "l2"}
\* the user who logs in, and the runs of daily logins (ending on day 0)
\* the row has behind it
RaceUser == "u1"
RaceRuns == {0} \cup SeedRuns

\* LoginUpdate that adds the points earned to the points of the row
LoginUpdateAddsPoints(row, r) ==
    [ row EXCEPT !.login_streak = r.user.login_streak,
                 !.best_login_streak = r.user.best_login_streak,
                 !.last_login_date = r.user.last_login_date,
                 !.total_login_days = r.user.total_login_days,
                 !.streak_points = row.streak_points + r.points_earned ]

\* update(User).where(User.id == user.id).values(...): the five streak
\* columns take the values of the user object of this request
LoginUpdate(row, r) ==
    [ row EXCEPT !.login_streak = r.user.login_streak,
                 !.best_login_streak = r.user.best_login_streak,
                 !.last_login_date = r.user.last_login_date,
                 !.total_login_days = r.user.total_login_days,
                 !.streak_points = r.user.streak_points ]

\* the logins of one user, all with the right password and on one date;
\* `start` is history, the row before any of them
InitLogins ==
    /\ \E k \in RaceRuns, today \in Days :
          /\ users = [ id \in Users |->
                         IF id = RaceUser
                         THEN AfterRun(NewUser("admin", "u1@x", "Passw0rd", TRUE),
                                       k, 0)
                         ELSE NewUser("player", "u2@x", "Passw0rd", FALSE) ]
          /\ loginDates = [ id \in Users |->
                              IF id = RaceUser THEN (1 - k)..0 ELSE {} ]
          /\ writes = [ id \in Users |->
                          IF id = RaceUser THEN [d \in (1 - k)..0 |-> 1]
                          ELSE [d \in {} |-> 0] ]
          /\ proc = [ p \in Logins |->
                        [ pc |-> "idle", today |-> today, user |-> << >>,
                          wrote |-> FALSE,
                          start |-> AfterRun(NewUser("admin", "u1@x",
                                                     "Passw0rd", TRUE), k, 0) ] ]
    /\ rate_limit_store = [ k \in RateKeys |-> 0 ]
    /\ response = [ status |-> 0, user |-> NoPayload ]
    /\ call = Call("start", NoUser, None, None, <<>>, Untouched)
    /\ log = << >>
    /\ ordered = [ id \in Users |-> TRUE ]
    /\ nLogins = 0
    /\ NoFriends
    /\ redis_client = NoClient
    /\ cache = [ k \in CacheKeys |-> Absent ]
    /\ commits = 0
    /\ invalidatedAt = [ k \in CacheKeys |-> 0 ]

\* login to `await db.execute(select(User)...)`: the row as committed now;
\* the password verifies and the user is not banned
LoginRead(p) ==
    /\ proc[p].pc = "idle"
    /\ VerifyPassword("Passw0rd", users[RaceUser].hashed_password)
    /\ ~RejectedAsBanned(users[RaceUser])
    /\ proc' = [proc EXCEPT ![p] = [ @ EXCEPT !.pc = "read",
                                              !.user = users[RaceUser] ]]
    /\ call' = [ op |-> "login_read", user |-> RaceUser, task |-> p ]
    /\ log' = << >>
    /\ UNCHANGED <<users, rate_limit_store, response, loginDates, ordered,
                   writes, nLogins, redis_client, cache, commits,
                   invalidatedAt,
                  friendships, requests>>

\* login from the streak logic to the return: the UPDATE with the values
\* computed from the row read, and its commit, unless the row read was of
\* today; the UPDATE of a row waits for a transaction that has updated it,
\* so UPDATE and commit are one step
LoginWrite(p) ==
    LET r == ApplyLogin(proc[p].user, proc[p].today) IN
    /\ proc[p].pc = "read"
    /\ users' = IF r.written
                THEN [users EXCEPT ![RaceUser] = LoginUpdate(@, r)]
                ELSE users
    /\ proc' = [proc EXCEPT ![p] = [ @ EXCEPT !.pc = "done",
                                              !.wrote = r.written ]]
    /\ response' = [ status |-> 200,
                     user |-> UserResponse(ToDict(RaceUser, r.user)) ]
    /\ call' = [ op |-> "login_write", user |-> RaceUser, task |-> p ]
    /\ log' = << >>
    /\ UNCHANGED <<rate_limit_store, loginDates, ordered, writes, nLogins,
                   redis_client, cache, commits, invalidatedAt,
                  friendships, requests>>

DoLoginRead == \E p \in Logins : LoginRead(p)
DoLoginWrite == \E p \in Logins : LoginWrite(p)

NextLogins == DoLoginRead \/ DoLoginWrite

SpecLogins == InitLogins /\ [][NextLogins]_vars

\* ------------------------------------------------ reads with a limit

\* as InitBoard, with Redis configured
InitLimits == InitBoard /\ redis_client = Client

\* either account submits to the first game, Redis answering
DoSubmitFirst ==
    \E id \in Users, score \in {1, 2} :
        SubmitScore(id, "g1", score, 0, "ok", "ok")

DoGlobalLimited ==
    \E limit \in Limits, fetched \in FetchOrders(users) :
        GetGlobalLeaderboard(limit, fetched, "ok", "ok")

DoGameLimited ==
    \E limit \in Limits, fetched \in FetchOrders(users) :
        GetGameLeaderboard("g1", limit, fetched, "ok", "ok")

NextLimits == DoSubmitFirst \/ DoGlobalLimited \/ DoGameLimited \/ DoExpire

SpecLimits == InitLimits /\ [][NextLimits]_vars

\* ------------------------------------------------------- streak queries

\* the lengths of the runs of daily logins the admin account has behind it:
\* none, and runs around the first and the last milestone
StreakRuns == {0, 6, 7, 364, 365}
\* the lengths of the runs the player has behind it
PlayerRuns == {0, 7}
\* values of the `limit` query parameter, which is any integer
StreakLimits == {-1, 0, 1, 10}

\* AfterRun for a long run, the first half of the run before the second
RECURSIVE AfterLongRun(_, _, _)
AfterLongRun(row, k, day) ==
    IF k <= 8 THEN AfterRun(row, k, day)
    ELSE LET h == k \div 2
             first == AfterLongRun(row, h, day - (k - h))
         IN  IF first.login_streak >= 0
             THEN AfterLongRun(first, k - h, day)
             ELSE first

\* both accounts with a run of daily logins that ended on day 0
InitStreaks ==
    /\ \E k \in StreakRuns, j \in PlayerRuns :
          LET run == [ id \in Users |-> IF id = "u1" THEN k ELSE j ] IN
          /\ users = [ id \in Users |->
                         AfterLongRun(
                             IF id = "u1"
                             THEN NewUser("admin", "u1@x", "Passw0rd", TRUE)
                             ELSE NewUser("player", "u2@x", "Passw0rd", FALSE),
                             run[id], 0) ]
          /\ loginDates = [ id \in Users |-> (1 - run[id])..0 ]
          /\ writes = [ id \in Users |-> [d \in (1 - run[id])..0 |-> 1] ]
    /\ rate_limit_store = [ k \in RateKeys |-> 0 ]
    /\ response = [ status |-> 0, user |-> NoPayload ]
    /\ call = Call("start", NoUser, None, None, <<>>, Untouched)
    /\ log = << >>
    /\ ordered = [ id \in Users |-> TRUE ]
    /\ nLogins = 0
    /\ NoFriends
    /\ NoBoard

\* either account logs in with the right password
DoStreakLogin ==
    \E email \in {"u1@x", "u2@x"}, ip \in IPs, today \in Days :
        Login(email, "Passw0rd", ip, today, "window_passed")

DoStreakQuery == \E id \in Users, today \in Days : GetUserStreak(id, today)

DoStreakBoard ==
    \E limit \in StreakLimits, fetched \in FetchOrders(users) :
        GetStreakLeaderboard(limit, fetched)

DoStreakBan == AdminBanUser("u1", "u2")

DoStreakUnban == AdminUnbanUser("u1", "u2")

NextStreaks ==
    \/ DoStreakLogin
    \/ DoStreakQuery
    \/ DoStreakBoard
    \/ DoStreakBan
    \/ DoStreakUnban

SpecStreaks == InitStreaks /\ [][NextStreaks]_vars

\* ---------------------------------------------------------------- friends

\* what a handler of the friends feature leaves alone
NoUserWrite ==
    /\ UNCHANGED <<users, rate_limit_store, loginDates, ordered, writes, nLogins>>
    /\ UNCHANGED boardVars

\* a friends handler that raised before it wrote anything
FriendRejected(op, me, other, status) ==
    /\ response' = [ status |-> status ]
    /\ call' = [ op |-> op, user |-> me, target |-> other, before |-> friendships ]
    /\ log' = << >>
    /\ UNCHANGED socialVars
    /\ NoUserWrite

\* a friends handler that committed the table `table`
FriendDone(op, me, other, table, made) ==
    /\ response' = [ status |-> 200, success |-> TRUE ]
    /\ call' = [ op |-> op, user |-> me, target |-> other, before |-> friendships ]
    /\ log' = << >>
    /\ friendships' = table
    /\ requests' = made
    /\ NoUserWrite

\* the existing-friendship query that looks in one direction only
BetweenOneWay(table, a, b) ==
    { f \in table : f.requester_id = a /\ f.addressee_id = b }

\* the rows between two users, in either direction
Between(table, a, b) ==
    { f \in table : \/ f.requester_id = a /\ f.addressee_id = b
                    \/ f.requester_id = b /\ f.addressee_id = a }

\* POST /friends/request; `me` is the user of the token
SendFriendRequest(me, user_id) ==
    LET existing == Between(friendships, me, user_id) IN
    IF me \notin DOMAIN users THEN FriendRejected("friend_request", me, user_id, 401)
    ELSE IF user_id = me THEN FriendRejected("friend_request", me, user_id, 400)
    ELSE IF user_id \notin DOMAIN users
         THEN FriendRejected("friend_request", me, user_id, 404)
    ELSE IF Cardinality(existing) > 1
         THEN FriendRejected("friend_request", me, user_id, 500)
    ELSE IF existing # {} THEN FriendRejected("friend_request", me, user_id, 400)
    ELSE /\ requests < MaxRequests
         /\ FriendDone("friend_request", me, user_id,
                       friendships \cup { [ id           |-> requests + 1,
                                            requester_id |-> me,
                                            addressee_id |-> user_id,
                                            status       |-> "pending" ] },
                       requests + 1)

\* the pending requests with this id that are addressed to `me`
PendingFor(me, request_id) ==
    { f \in friendships : /\ f.id = request_id
                          /\ f.addressee_id = me
                          /\ f.status = "pending" }

\* accept_friend_request and decline_friend_request
AnswerFriendRequest(op, me, request_id, status) ==
    LET found == PendingFor(me, request_id) IN
    IF me \notin DOMAIN users THEN FriendRejected(op, me, request_id, 401)
    ELSE IF found = {} THEN FriendRejected(op, me, request_id, 404)
    ELSE LET friendship == CHOOSE f \in found : TRUE IN
         FriendDone(op, me, request_id,
                    (friendships \ {friendship})
                        \cup { [ friendship EXCEPT !.status = status ] },
                    requests)

\* POST /friends/accept/{request_id}
AcceptFriendRequest(me, request_id) ==
    AnswerFriendRequest("friend_accept", me, request_id, "accepted")

\* POST /friends/decline/{request_id}
DeclineFriendRequest(me, request_id) ==
    AnswerFriendRequest("friend_decline", me, request_id, "declined")

\* DELETE /friends/{friend_id}
RemoveFriend(me, friend_id) ==
    LET found == { f \in Between(friendships, me, friend_id) :
                     f.status = "accepted" }
    IN
    IF me \notin DOMAIN users THEN FriendRejected("friend_remove", me, friend_id, 401)
    ELSE IF Cardinality(found) > 1
         THEN FriendRejected("friend_remove", me, friend_id, 500)
    ELSE IF found = {} THEN FriendRejected("friend_remove", me, friend_id, 404)
    ELSE FriendDone("friend_remove", me, friend_id, friendships \ found, requests)

\* three registered accounts, no friendship yet; "u4" is an id of no account
InitFriends ==
    /\ users = [ id \in AllIds |->
                   IF id = "u1" THEN NewUser("admin", "u1@x", "Passw0rd", TRUE)
                   ELSE IF id = "u2" THEN NewUser("player", "u2@x", "Passw0rd", FALSE)
                   ELSE NewUser("rookie", "nobody@x", "Passw0rd", FALSE) ]
    /\ loginDates = [ id \in AllIds |-> {} ]
    /\ writes = [ id \in AllIds |-> [d \in {} |-> 0] ]
    /\ rate_limit_store = [ k \in RateKeys |-> 0 ]
    /\ response = [ status |-> 0, user |-> NoPayload ]
    /\ call = Call("start", NoUser, None, None, <<>>, Untouched)
    /\ log = << >>
    /\ ordered = [ id \in AllIds |-> TRUE ]
    /\ nLogins = 0
    /\ NoFriends
    /\ NoBoard

\* the admin and the player send requests, to any account and to "u4"
DoFriendRequest ==
    \E me \in Users, user_id \in AllIds \cup {"u4"} : SendFriendRequest(me, user_id)

DoFriendAccept ==
    \E me \in AllIds, request_id \in 1..MaxRequests : AcceptFriendRequest(me, request_id)

DoFriendDecline ==
    \E me \in AllIds, request_id \in 1..MaxRequests : DeclineFriendRequest(me, request_id)

DoFriendRemove ==
    \E me \in Users, friend_id \in AllIds : RemoveFriend(me, friend_id)

NextFriends == DoFriendRequest \/ DoFriendAccept \/ DoFriendDecline \/ DoFriendRemove

SpecFriends == InitFriends /\ [][NextFriends]_vars

\* ------------------------------------------------------ user management

\* POST /admin/users/{user_id}/make-admin
AdminMakeAdmin(admin, id) ==
    LET gate == AdminGate("make_admin", admin, id)
        status == IF gate # 200 THEN gate
                  ELSE IF users[id].is_banned THEN 400
                  ELSE 200
    IN
    /\ users' = IF status = 200
                THEN [users EXCEPT ![id].is_admin = TRUE]
                ELSE users
    /\ log' = << >>
    /\ AdminDone("make_admin", id, status)

\* POST /admin/users/{user_id}/remove-admin
AdminRemoveAdmin(admin, id) ==
    LET gate == AdminGate("remove_admin", admin, id)
        status == IF gate = 403 THEN 403
                  ELSE IF id = admin THEN 400
                  ELSE gate
    IN
    /\ users' = IF status = 200
                THEN [users EXCEPT ![id].is_admin = FALSE]
                ELSE users
    /\ log' = << >>
    /\ AdminDone("remove_admin", id, status)

\* DELETE /admin/users/{user_id}; the friendships of the user go with the
\* row (ondelete CASCADE)
AdminDeleteUser(admin, id) ==
    LET gate == AdminGate("delete", admin, id)
        status == IF gate = 403 THEN 403
                  ELSE IF id = admin THEN 400
                  ELSE IF gate # 200 THEN gate
                  ELSE IF users[id].is_admin THEN 400
                  ELSE 200
    IN
    /\ users' = IF status = 200
                THEN [ i \in DOMAIN users \ {id} |-> users[i] ]
                ELSE users
    /\ friendships' = IF status = 200
                      THEN { f \in friendships :
                               f.requester_id # id /\ f.addressee_id # id }
                      ELSE friendships
    /\ response' = [ status |-> status, user |-> NoPayload ]
    /\ call' = Call("delete", NoUser, None, None, <<>>, Untouched)
    /\ log' = << >>
    /\ UNCHANGED <<rate_limit_store, loginDates, ordered, writes, nLogins, requests>>
    /\ UNCHANGED boardVars

\* bodies of PUT /admin/users/{user_id} that set a flag
FlagUpdates ==
    { [ is_banned |-> TRUE ], [ is_banned |-> FALSE ],
      [ is_admin |-> TRUE ], [ is_admin |-> FALSE ] }

\* the request comes from any account, for any account
DoAdminBan == \E admin \in AllIds, id \in AllIds : AdminBanUser(admin, id)

DoAdminUnban == \E admin \in AllIds, id \in AllIds : AdminUnbanUser(admin, id)

DoMakeAdmin == \E admin \in AllIds, id \in AllIds : AdminMakeAdmin(admin, id)

DoRemoveAdmin == \E admin \in AllIds, id \in AllIds : AdminRemoveAdmin(admin, id)

DoDeleteUser == \E admin \in AllIds, id \in AllIds : AdminDeleteUser(admin, id)

DoUpdateFlags ==
    \E admin \in AllIds, id \in AllIds, update_data \in FlagUpdates :
        AdminUpdateUser(admin, id, update_data)

NextAdmin ==
    \/ DoAdminBan
    \/ DoAdminUnban
    \/ DoMakeAdmin
    \/ DoRemoveAdmin
    \/ DoDeleteUser
    \/ DoUpdateFlags

\* three accounts as register leaves them, the first one an admin
SpecAdmin == InitFriends /\ [][NextAdmin]_vars

\* ------------------------------------------------------------ properties

\* the last request was a login that was accepted
Accepted == call.op = "login" /\ response.status = 200
\* the row of the user of the last login, now and before it
Row == users[call.user]
Before == call.before
Today == call.today[1]
\* the "streak updated" record the last handler logged, if any
StreakLogs == { i \in 1..Len(log) : log[i].event = "streak_updated" }

SameDayCase == Accepted /\ Before.last_login_date = Some(Today)
ConsecutiveCase == Accepted /\ Before.last_login_date = Some(Today - 1)
FirstCase == Accepted /\ Before.last_login_date = None
GapCase ==
    /\ Accepted
    /\ Before.last_login_date # None
    /\ Today >= Before.last_login_date[1] + 2
BackdatedCase ==
    /\ Accepted
    /\ Before.last_login_date # None
    /\ Today < Before.last_login_date[1]

\* C1: a login accepted on the date already stored as last_login_date changes
\* none of the five streak fields, earns 0 points and logs no streak update;
\* so the row after a second login of a day is the row the first one left.
C1_SameDayIdempotent ==
    SameDayCase =>
        /\ StreakFields(Row) = StreakFields(Before)
        /\ Row = Before
        /\ call.points_earned = 0
        /\ StreakLogs = {}

\* C1 witness: the second accepted login of this run is a repeat, on the same
\* day, of the first login a user ever made.
C1_Witness ==
    /\ SameDayCase
    /\ nLogins = 2
    /\ Row.total_login_days = 1
    /\ Row.streak_points = 10

\* C2: while a user's accepted logins have non-decreasing dates, the best
\* streak is at least the current streak after every login, and no login
\* lowers the best streak.
C2_BestMonotone ==
    \A id \in DOMAIN users :
        ordered[id] =>
            /\ users[id].best_login_streak >= users[id].login_streak
            /\ (Accepted /\ call.user = id) =>
                   users[id].best_login_streak >= Before.best_login_streak

\* C2 witness: a consecutive-day login, in date order, raised the best streak.
C2_Witness ==
    /\ ConsecutiveCase
    /\ ordered[call.user]
    /\ Row.best_login_streak = Before.best_login_streak + 1
    /\ Row.best_login_streak = Row.login_streak

\* C3: a login two or more days after last_login_date resets the streak to
\* exactly 1, earns exactly 10 points which are added to streak_points,
\* counts one more login day and leaves the best streak as it was.
C3_ResetOnGap ==
    GapCase =>
        /\ Row.login_streak = 1
        /\ call.points_earned = 10
        /\ \A i \in StreakLogs : log[i].points_earned = 10 /\ log[i].streak = 1
        /\ Row.streak_points = Before.streak_points + 10
        /\ Row.total_login_days = Before.total_login_days + 1
        /\ Row.best_login_streak = Before.best_login_streak

\* C3 witness: a streak longer than one day was broken by a gap.
C3_Witness ==
    /\ GapCase
    /\ Before.login_streak > 1
    /\ Row.login_streak = 1
    /\ Row.best_login_streak > 1

\* the reward tiers as the specification states them
TierPoints(n) ==
    CASE n <= 7            -> 10 * n
      [] n >= 8 /\ n <= 30 -> 100 + (n - 7) * 15
      [] n > 30            -> 500 + (n - 30) * 20

\* C4: a login on the day after last_login_date raises the streak by exactly
\* 1 to n, counts one more login day and adds to streak_points the points
\* earned, which are those of the tier of n: 70 at n = 7, 445 at n = 30,
\* 720 at n = 41.
C4_ConsecutiveTiers ==
    ConsecutiveCase =>
        LET n == Row.login_streak IN
        /\ n = Before.login_streak + 1
        /\ Row.total_login_days = Before.total_login_days + 1
        /\ call.points_earned = TierPoints(n)
        /\ \A i \in StreakLogs : log[i].points_earned = TierPoints(n)
        /\ Row.streak_points = Before.streak_points + TierPoints(n)
        /\ (n = 7 => call.points_earned = 70)
        /\ (n = 8 => call.points_earned = 115)
        /\ (n = 30 => call.points_earned = 445)
        /\ (n = 31 => call.points_earned = 520)
        /\ (n = 41 => call.points_earned = 720)

\* C4 witness: the 41st consecutive day, paid from the third tier.
C4_Witness ==
    /\ ConsecutiveCase
    /\ Row.login_streak = 41
    /\ call.points_earned = 720

LastLoginIsToday ==
    (Accepted /\ ~SameDayCase) => Row.last_login_date = Some(Today)

C8_BackdatedIsGap ==
    BackdatedCase =>
        /\ response.status = 200
        /\ Row.login_streak = 1
        /\ call.points_earned = 10
        /\ Row.streak_points = Before.streak_points + 10
        /\ Row.best_login_streak = Before.best_login_streak
        /\ Row.last_login_date = Some(Today)

\* C8 witness: a login dated before the stored date reset a longer streak.
C8_Witness ==
    /\ BackdatedCase
    /\ Before.login_streak > 1
    /\ Row.login_streak = 1

\* C9: a login step changes streak fields only when it answers 200, then only
\* those of the user who logged in, who was not banned and whose password
\* verified; a login answered 429, 401 or 403 leaves the streak fields of
\* every user as they were.
C9_RejectedLoginWritesNothing ==
    [][ call'.op = "login" =>
          /\ response'.status \in {200, 401, 403, 429}
          /\ response'.status # 200 =>
                 \A id \in DOMAIN users :
                     /\ id \in DOMAIN users'
                     /\ StreakFields(users'[id]) = StreakFields(users[id])
          /\ response'.status = 200 =>
                 /\ call'.user \in DOMAIN users
                 /\ ~users[call'.user].is_banned
                 /\ VerifyPassword(call'.password[1],
                                   users[call'.user].hashed_password)
                 /\ \A id \in DOMAIN users \ {call'.user} :
                        StreakFields(users'[id]) = StreakFields(users[id])
      ]_vars

\* C9 witness: a user with a streak was banned and then refused at login,
\* the streak fields still there.
C9_Witness ==
    /\ call.op = "login"
    /\ response.status = 403
    /\ users[call.user].is_banned
    /\ users[call.user].login_streak >= 1
    /\ users[call.user].streak_points >= 10

\* date.isoformat()
IsoFormat(date) == IF date = None THEN None ELSE << "iso", date[1] >>

\* C10, as claimed: the user payload of an accepted login carries the five
\* streak fields as stored after the streak update.
C10_PayloadCarriesStreak ==
    Accepted =>
        /\ response.user.login_streak = Row.login_streak
        /\ response.user.best_login_streak = Row.best_login_streak
        /\ response.user.total_login_days = Row.total_login_days
        /\ response.user.streak_points = Row.streak_points
        /\ response.user.last_login_date = IsoFormat(Row.last_login_date)

\* the streak columns of a row register has just created
NewStreak == << 0, 0, 0, 0, None >>

\* C11: only a login step changes streak fields: every other request
\* (registration, the streak-status and streak-leaderboard reads, a score
\* submission, the admin update and ban) leaves the five streak
\* fields of every existing row as they were, and a row that registration
\* adds has them at 0, 0, 0, 0 and NULL.
C11_OnlyLoginWritesStreak ==
    [][ call'.op # "login" =>
          /\ \A id \in DOMAIN users :
                 /\ id \in DOMAIN users'
                 /\ StreakFields(users'[id]) = StreakFields(users[id])
          /\ \A id \in DOMAIN users' \ DOMAIN users :
                 /\ call'.op = "register"
                 /\ StreakFields(users'[id]) = NewStreak
      ]_vars

\* C11 witness: the admin, seven days into a streak, has been marked banned
\* by an admin update and has then submitted a score that was counted, next
\* to a row that registration added.
C11_Witness ==
    /\ call.op = "submit"
    /\ response.status = 200
    /\ users[call.user].login_streak = 7
    /\ users[call.user].total_games_played = 1
    /\ users[call.user].is_banned
    /\ "u3" \in DOMAIN users

\* the last request was a leaderboard read, or a score submission by a user
ReadOps == {"global_leaderboard", "game_leaderboard"}
LbRead == call.op \in ReadOps /\ response.status = 200
Submitted == call.op = "submit" /\ call.user # NoUser

\* the rows a scope ranks: all of them, or those with a score for the game
Candidates(game_id) ==
    IF game_id = None THEN DOMAIN users
    ELSE { id \in DOMAIN users : HasScore(users[id], game_id[1]) }

RanksContiguous(lb) == \A i \in 1..Len(lb) : lb[i].rank = i

Descending(op, lb) ==
    \A i \in 1..(Len(lb) - 1) :
        IF op = "game_leaderboard" THEN lb[i].score >= lb[i + 1].score
        ELSE \/ lb[i].total_games > lb[i + 1].total_games
             \/ /\ lb[i].total_games = lb[i + 1].total_games
                /\ lb[i].total_time >= lb[i + 1].total_time

\* the entries are the candidates, each once, with the stored values
RanksCandidates(op, game_id, lb) ==
    /\ Len(lb) = Cardinality(Candidates(game_id))
    /\ { lb[i].user : i \in 1..Len(lb) } = Candidates(game_id)
    /\ \A i \in 1..Len(lb) :
          IF op = "game_leaderboard"
          THEN lb[i].score = users[lb[i].user].high_scores[game_id[1]]
          ELSE /\ lb[i].total_games = users[lb[i].user].total_games_played
               /\ lb[i].total_time = users[lb[i].user].total_play_time

C13_NextReadShowsNewScore ==
    [][ ( /\ Submitted
          /\ response.status = 200
          /\ response.new_high_score
          /\ call'.op = "game_leaderboard"
          /\ call'.game = Some(call.game) )
        => \E i \in 1..Len(response'.leaderboard) :
              /\ response'.leaderboard[i].user = call.user
              /\ response'.leaderboard[i].score = call.score
      ]_vars

\* the high score the table holds for the user and game of the last
\* submission, before it and now (0 when there is none)
HighBefore == Get(call.before.high_scores, call.game, 0)
HighNow == Get(users[call.user].high_scores, call.game, 0)

\* C14, as claimed: a submission with score <= the stored high score leaves
\* the stored high score unchanged and returns new_high_score = false; one
\* with score > the stored high score stores the score and returns
\* new_high_score = true.
C14_HighScoreStored ==
    (Submitted /\ response.status = 200) =>
        IF call.score <= HighBefore
        THEN /\ users[call.user].high_scores = call.before.high_scores
             /\ response.new_high_score = FALSE
        ELSE /\ HighNow = call.score
             /\ response.new_high_score = TRUE

\* C15, as claimed: the high_score a submission returns is the high score
\* the table holds for the user and game after the call.
C15_ReturnsStoredHigh ==
    (Submitted /\ response.status = 200) => response.high_score = HighNow

\* C16: with Redis answering, a submission by a user, new high score or
\* not, is answered 200 and leaves neither the key of the game's
\* leaderboard nor the global key in the cache: both were deleted after the
\* commit of this submission.
C16_BothKeysInvalidated ==
    (Submitted /\ redis_client = Client /\ call.faults = <<"ok", "ok">>) =>
        /\ response.status = 200
        /\ cache[GameKey(call.game)] = Absent
        /\ cache[GlobalKey] = Absent
        /\ invalidatedAt[GameKey(call.game)] = commits
        /\ invalidatedAt[GlobalKey] = commits
        /\ call.rets = <<TRUE, TRUE>>

\* C16 witness: a submission that was no new high score found both keys in
\* the cache and left none.
C16_Witness ==
    /\ Submitted
    /\ redis_client = Client
    /\ call.faults = <<"ok", "ok">>
    /\ ~response.new_high_score
    /\ {GameKey(call.game), GlobalKey} \subseteq call.cached_before
    /\ \A k \in CacheKeys : cache[k] = Absent

\* C17: without a client, or when the Redis commands of the request raise,
\* a leaderboard read is answered 200 with the list computed from the table
\* and cached = false, as on a miss; storing it returns False and a
\* submission's delete_cache returns False and delete_pattern 0; the cache
\* is left as it was; no request is answered 500.
C17_CacheDownIsMiss ==
    [][ LET down == redis_client = NoClient IN
        /\ response'.status # 500
        /\ (call'.op \in ReadOps /\ (down \/ call'.faults[1] = "error")) =>
              /\ response'.status = 200
              /\ response'.cached = FALSE
              /\ call'.computed # None
              /\ response'.leaderboard = call'.computed[1]
        /\ ( /\ call'.op \in ReadOps
             /\ ~call'.hit
             /\ (down \/ call'.faults[2] = "error") ) =>
              /\ call'.set = Some(FALSE)
              /\ cache' = cache
        /\ ( /\ call'.op = "submit"
             /\ call'.user # NoUser
             /\ (down \/ call'.faults = <<"error", "error">>) ) =>
              /\ response'.status = 200
              /\ call'.inner = <<FALSE, 0>>
              /\ cache' = cache
      ]_vars

\* C17 witness: Redis holds a list for the game that is out of date, the
\* commands of a read raise, and the read returns the list computed from
\* the table.
C17_Witness ==
    /\ LbRead
    /\ call.op = "game_leaderboard"
    /\ redis_client = Client
    /\ call.faults = <<"error", "error">>
    /\ cache[GameKey(call.game[1])] # Absent
    /\ response.leaderboard # JsonLoads(cache[GameKey(call.game[1])][1].value)
    /\ response.leaderboard # << >>
    /\ ~response.cached

\* C18: a submission whose delete_cache command raises is answered 200 with
\* success = true, and the row is committed as it would be with Redis
\* answering: one more game played, the play time added, the high score
\* column as the commit writes it.
C18_FailedInvalidationNotFatal ==
    (Submitted /\ redis_client = Client /\ call.faults[1] = "error") =>
        /\ response.status = 200
        /\ response.success = TRUE
        /\ call.rets[1] = FALSE
        /\ users[call.user] =
              ScoredRow(call.before,
                        ScoreLocals(call.before, call.game, call.score),
                        call.play_time)
        /\ users[call.user].total_games_played =
              call.before.total_games_played + 1

\* C18 witness: the delete commands raised, a stale list stayed in the
\* cache, and the submission stored a first high score and returned it.
C18_Witness ==
    /\ Submitted
    /\ redis_client = Client
    /\ call.faults = <<"error", "error">>
    /\ response.status = 200
    /\ response.new_high_score
    /\ cache[GameKey(call.game)] # Absent
    /\ HighNow = call.score
    /\ HighBefore = 0

\* C19, as claimed: a read that has returned did not return a list computed
\* from a table older than the last deletion of the key that preceded the
\* start of the read.
C19_NoStaleAfterInvalidation ==
    \A p \in DOMAIN proc :
        (p \in Readers /\ proc[p].pc = "done") => proc[p].at >= proc[p].floor

\* the row one login of the user on the date leaves
SingleLogin(start, today) ==
    LET r == ApplyLogin(start, today) IN
    IF r.written THEN r.user ELSE start

\* C20: when the concurrent logins of the user on one date have all
\* returned, in whatever order their reads and writes interleaved, the five
\* streak fields of the row are those a single login on that date leaves.
C20_ConcurrentLoginsBenign ==
    (\A p \in DOMAIN proc : p \in Logins /\ proc[p].pc = "done") =>
        \A p \in DOMAIN proc :
            StreakFields(users[RaceUser]) =
                StreakFields(SingleLogin(proc[p].start, proc[p].today))

\* C20 witness: two logins on the day after the last login both read the
\* row before either wrote it, both wrote, and the streak rose by one.
C20_Witness ==
    /\ DOMAIN proc = Logins
    /\ \A p \in Logins : proc[p].pc = "done" /\ proc[p].wrote
    /\ \A p \in Logins : proc[p].start.last_login_date = Some(proc[p].today - 1)
    /\ \A p \in Logins :
          users[RaceUser].login_streak = proc[p].start.login_streak + 1

\* the last request was a streak-status query that was answered
StreakRead == call.op = "streak" /\ response.status = 200

\* C21: the streak-status query reports streak_active = true exactly when
\* last_login_date is set and the query's date is at most one day after it,
\* and false otherwise, a user that never logged in included
C21_StreakActive ==
    StreakRead =>
        LET last == users[call.user].last_login_date IN
        /\ last = None => response.streak.streak_active = FALSE
        /\ last # None =>
              (response.streak.streak_active <=> call.today - last[1] <= 1)

\* a query one day after the last login reports an active streak
C21_Witness ==
    /\ StreakRead
    /\ users[call.user].last_login_date # None
    /\ call.today - users[call.user].last_login_date[1] = 1
    /\ response.streak.streak_active

\* C22: next_milestone is the smallest milestone strictly above login_streak
\* and days_to_milestone is the distance to it, at least 1; both are null
\* exactly when login_streak >= 365
C22_NextMilestone ==
    StreakRead =>
        LET streak == users[call.user].login_streak
            next == response.streak.next_milestone
            days == response.streak.days_to_milestone
        IN
        /\ (next = None) <=> (streak >= 365)
        /\ (days = None) <=> (streak >= 365)
        /\ next # None =>
              /\ next[1] \in {7, 14, 30, 60, 90, 180, 365}
              /\ next[1] > streak
              /\ \A m \in {7, 14, 30, 60, 90, 180, 365} : m > streak => next[1] <= m
              /\ days = Some(next[1] - streak)
              /\ days[1] >= 1

\* a query of a user whose streak reached the last milestone
C22_Witness ==
    /\ StreakRead
    /\ users[call.user].login_streak >= 365
    /\ response.streak.next_milestone = None

\* the last request was a streak leaderboard that was answered
StreakBoardRead == call.op = "streak_leaderboard" /\ response.status = 200

\* C23: the streak leaderboard has at most `limit` rows, in descending
\* order of login_streak, the i-th row with rank i, and no banned user
C23_StreakLeaderboard ==
    StreakBoardRead =>
        LET lb == response.leaderboard IN
        /\ Len(lb) <= call.limit
        /\ \A i \in 1..Len(lb) : lb[i].rank = i
        /\ \A i \in 1..Len(lb), j \in 1..Len(lb) :
              i < j => lb[i].login_streak >= lb[j].login_streak
        /\ \A id \in DOMAIN users :
              users[id].is_banned =>
                  \A i \in 1..Len(lb) : lb[i].username # users[id].username

\* a leaderboard read while the account with the longer streak is banned
C23_Witness ==
    /\ StreakBoardRead
    /\ Len(response.leaderboard) = 1
    /\ \E id \in DOMAIN users :
          /\ users[id].is_banned
          /\ users[id].login_streak > response.leaderboard[1].login_streak


\* the last request was a friend request of an authenticated user
FriendRequested == call.op = "friend_request" /\ response.status # 401

\* the rows of a friendships table that join two users
Joining(table, a, b) ==
    { f \in table : {f.requester_id, f.addressee_id} = {a, b} }

\* C24: a friend request to oneself is rejected with 400 and creates
\* nothing; a request is rejected with 400 whenever a row of any status
\* exists between the two users in either direction; so at most one row
\* exists per unordered pair of users
C24_OneFriendshipPerPair ==
    /\ FriendRequested /\ call.target = call.user =>
          response.status = 400 /\ friendships = call.before
    /\ FriendRequested /\ Joining(call.before, call.user, call.target) # {} =>
          response.status = 400 /\ friendships = call.before
    /\ \A a \in AllIds, b \in AllIds :
          a # b => Cardinality(Joining(friendships, a, b)) <= 1

\* a request refused because the other user's declined request is on record
C24_Witness ==
    /\ FriendRequested
    /\ response.status = 400
    /\ \E f \in call.before :
          /\ f.requester_id = call.target
          /\ f.addressee_id = call.user
          /\ f.status = "declined"


\* the last request was a per-game leaderboard computed from the table
GameComputed ==
    call.op = "game_leaderboard" /\ response.status = 200 /\ ~call.hit

\* the place of a user in the order the rows were fetched
FetchedAt(id) == CHOOSE i \in 1..Len(call.fetched[1]) : call.fetched[1][i] = id

\* C25: in a per-game leaderboard two users with equal high scores keep
\* the order in which they were fetched from the user table, the
\* earlier-fetched one with the smaller rank
C25_TiesKeepFetchOrder ==
    GameComputed =>
        LET lb == response.leaderboard IN
        \A i \in 1..Len(lb), j \in 1..Len(lb) :
            lb[i].score = lb[j].score /\ FetchedAt(lb[i].user) < FetchedAt(lb[j].user)
                => i < j /\ lb[i].rank < lb[j].rank

\* two users with the same score, fetched in the order player, admin
C25_Witness ==
    /\ GameComputed
    /\ call.fetched[1] = << "u2", "u1" >>
    /\ Len(response.leaderboard) = 2
    /\ response.leaderboard[1].score = response.leaderboard[2].score
    /\ response.leaderboard[1].user = "u2"


\* the records a login logs whether or not its date is in order
OrdinaryLoginEvents == {"streak_updated", "login_ok"}

\* C26: a login dated before the stored last_login_date logs an anomaly
\* record, distinct from the ordinary streak-update record, and the
\* response carries nothing about it
C26_BackdatedLogsAnomaly ==
    BackdatedCase =>
        /\ \E i \in 1..Len(log) : log[i].event \notin OrdinaryLoginEvents
        /\ DOMAIN response = {"status", "user"}


\* C27: with Redis answering, a leaderboard read whose key is present and
\* unexpired returns exactly the stored snapshot and does not query the
\* table; a read whose key is absent recomputes from the table, stores
\* the list under the key and returns it
C27_ReadThrough ==
    [][ ( /\ call'.op \in ReadOps
          /\ redis_client = Client
          /\ call'.faults = <<"ok", "ok">> ) =>
            LET key == LeaderboardKey(call'.game) IN
            IF cache[key] # Absent
            THEN /\ response'.status = 200
                 /\ response'.cached
                 /\ response'.leaderboard = JsonLoads(cache[key][1].value)
                 /\ call'.fetched = None
                 /\ cache' = cache
            ELSE /\ response'.status = 200
                 /\ ~response'.cached
                 /\ call'.computed = Some(response'.leaderboard)
                 /\ cache'[key] # Absent
                 /\ JsonLoads(cache'[key][1].value) = response'.leaderboard
      ]_vars


\* C28: after any sequence of submissions the stored high score of a user
\* for a game exists and is the maximum of the scores the user submitted
\* for it, scores of zero and below included; step by step: after each
\* submission the stored high score exists and is the larger of the
\* submitted score and the one stored before, the submitted score when
\* none was stored
C28_StoredHighIsMaximum ==
    [][ ( /\ call'.op = "submit"
          /\ call'.user # NoUser
          /\ response'.status = 200 ) =>
            LET before == users[call'.user].high_scores
                after == users'[call'.user].high_scores
                g == call'.game
            IN  /\ g \in DOMAIN after
                /\ after[g] = IF g \in DOMAIN before /\ before[g] > call'.score
                              THEN before[g] ELSE call'.score
      ]_vars


\* C29: a global or per-game leaderboard response has at most `limit`
\* entries for the limit of its request, whatever reads came before, a
\* response served from a snapshot that a read with a larger limit cached
\* included
C29_AtMostLimit ==
    LbRead => Len(response.leaderboard) <= call.limit


\* C30: after any sequence of ban, unban, make-admin, remove-admin, update
\* and delete operations no user is both an admin and banned
C30_NoBannedAdmin ==
    \A id \in DOMAIN users : ~(users[id].is_admin /\ users[id].is_banned)

====
